---- MODULE Spec2Model ----
(***************************************************************************)
(* A model of src/particle.rs: ParticleSystemBuilder and ParticleSystem.   *)
(*                                                                         *)
(* Numbers.  The program computes in f64.  The model computes in exact     *)
(* fixed point, each quantity an integer count of its own resolution:      *)
(*    dt, age, max_life   half seconds      (1.0 s  is 2,  1.5 s is 3)     *)
(*    acceleration        tenths            (-9.8   is -98)                *)
(*    velocity            twentieths        (10.0   is 200)                *)
(*    position            fortieths                                        *)
(* so that  vel + acceleration * dt  and  pos + vel * dt  are integer      *)
(* products with no rounding.  f64::INFINITY is the value Inf, which no    *)
(* finite age reaches.  Every dt and every lifetime argument is a finite   *)
(* number or +infinity (lifetime only); NaN is not an input of the model.  *)
(* The capacity of the Vec (count's reserve_exact) is not part of the      *)
(* state: no operation reads it.                                           *)
(*                                                                         *)
(* History.  hist is the sequence of calls made on the built system, and   *)
(* every particle carries in born the index in hist of the emit call that  *)
(* created it; configured records the argument of the last call of every   *)
(* builder option; call is the call that was made last.  None of them is   *)
(* read by the program's operations: they are what the properties are      *)
(* stated in.                                                              *)
(*                                                                         *)
(* Outputs.  result is what the last call returned (<<>> for the unit      *)
(* value) and drawn the rectangles it handed to the graphics context.      *)
(*                                                                         *)
(* Transition and StartParam are objects of their own, used by no          *)
(* operation of the particle system: each has its own specification        *)
(* (SpecTransition, SpecStartParam), told apart by phase.                  *)
(*                                                                         *)
(* Specifications.  Spec: the builder, emit and update.  SpecDraw: the     *)
(* same with draw_ex.  SpecLive: the same with update called for ever      *)
(* (weak fairness), for the liveness of eviction.                          *)
(***************************************************************************)
EXTENDS Integers, Sequences, FiniteSets, TLC

\* Bounds of the model.
MaxOps == 4       \* calls of emit and update made on one built system
MaxCount == 2     \* largest argument of count()
MaxDt == 3        \* largest dt, in half seconds
MaxBreakTime == 2 \* breakpoint times are 0..MaxBreakTime, the unit interval
MaxBreakVal == 1  \* breakpoint values are 0..MaxBreakVal
MaxParam == 5     \* largest StartParam value, in quarters

\* ------------------------------------------------------------------ f64
Inf == [fin |-> FALSE, v |-> 0]
Fin(t) == [fin |-> TRUE, v |-> t]

\* a < m, for a finite a and an m that is finite or +infinity
F64Lt(a, m) == IF m.fin THEN a < m.v ELSE TRUE

\* nalgebra's Vector2 / Point2 arithmetic
VAdd(a, b) == <<a[1] + b[1], a[2] + b[2]>>
VScale(a, k) == <<a[1] * k, a[2] * k>>

\* --------------------------------------------------------------- inputs
Counts == 0..MaxCount
Lifetimes == {Fin(-1), Fin(0), Fin(4), Inf}
Accels == {<<0, 0>>, <<0, -98>>, <<3, 1>>}
Dts == (-1)..MaxDt

\* the position and the velocity emit() gives every particle
EmitPos == <<0, 0>>
EmitVel == <<200, 200>>

VARIABLES phase, particles, max_particles, max_life, acceleration,
          configured, hist, call,
          breakpoints, start_param, drawn, result

vars == <<phase, particles, max_particles, max_life, acceleration,
          configured, hist, call,
          breakpoints, start_param, drawn, result>>

\* what no call on the builder or on the particle system touches
others == <<breakpoints, start_param>>

\* ------------------------------------------------------------- Particle
Particle_new(pos, vel, b) == [pos |-> pos, vel |-> vel, age |-> 0, born |-> b]

\* ------------------------------------------------------- ParticleSystem
ParticleSystem_new_bounded_life ==
    [particles |-> <<>>, max_particles |-> 0, max_life |-> Fin(4),
     acceleration |-> <<0, 0>>]

ParticleSystem_new ==
    [particles |-> <<>>, max_particles |-> 0, max_life |-> Inf,
     acceleration |-> <<0, 0>>]

add_particle_unchecked(ps, mp, p) == Append(ps, p)

add_particle_strict(ps, mp, p) == IF Len(ps) < mp THEN Append(ps, p) ELSE ps

add_particle_replaces_oldest(ps, mp, p) ==
    IF Len(ps) <= mp THEN Append(ps, p) ELSE Append(Tail(ps), p)

add_particle_in_front(ps, mp, p) == IF Len(ps) <= mp THEN <<p>> \o ps ELSE ps

add_particle(ps, mp, p) == IF Len(ps) <= mp THEN Append(ps, p) ELSE ps

emit(ps, mp, b) == add_particle(ps, mp, Particle_new(EmitPos, EmitVel, b))

\* the body of update's loop, for one particle
integrate_vel_without_dt(p, acc, dt) ==
    LET v == VAdd(p.vel, acc)
    IN  [p EXCEPT !.vel = v, !.pos = VAdd(p.pos, VScale(v, dt)), !.age = p.age + dt]

integrate_age_assigned(p, acc, dt) ==
    LET v == VAdd(p.vel, VScale(acc, dt))
    IN  [p EXCEPT !.vel = v, !.pos = VAdd(p.pos, VScale(v, dt)), !.age = dt]

integrate_on_copy(p, acc, dt) == p

integrate_pos_before_vel(p, acc, dt) ==
    [p EXCEPT !.vel = VAdd(p.vel, VScale(acc, dt)),
              !.pos = VAdd(p.pos, VScale(p.vel, dt)), !.age = p.age + dt]

integrate(p, acc, dt) ==
    LET v == VAdd(p.vel, VScale(acc, dt))
    IN  [p EXCEPT !.vel = v, !.pos = VAdd(p.pos, VScale(v, dt)), !.age = p.age + dt]

retain_le(ps, ml) == SelectSeq(ps, LAMBDA p : F64Lt(p.age, ml) \/ (ml.fin /\ p.age = ml.v))

retain(ps, ml) == SelectSeq(ps, LAMBDA p : F64Lt(p.age, ml))

update(ps, acc, ml, dt) ==
    retain([i \in 1..Len(ps) |-> integrate(ps[i], acc, dt)], ml)

\* ----------------------------------------------------------------- Init
Init ==
    /\ phase = "building"
    /\ particles = ParticleSystem_new.particles
    /\ max_particles = ParticleSystem_new.max_particles
    /\ max_life = ParticleSystem_new.max_life
    /\ acceleration = ParticleSystem_new.acceleration
    /\ configured = [count |-> <<>>, lifetime |-> <<>>, acceleration |-> <<>>]
    /\ hist = <<>>
    /\ call = [name |-> "new", arg |-> <<>>]
    /\ breakpoints = <<>>
    /\ start_param = [kind |-> "None"]
    /\ drawn = <<>>
    /\ result = <<>>

\* ------------------------------------------------- ParticleSystemBuilder
Builder_count(c) ==
    /\ phase = "building"
    /\ max_particles' = c
    /\ configured' = [configured EXCEPT !.count = <<c>>]
    /\ call' = [name |-> "count", arg |-> <<c>>]
    /\ UNCHANGED <<phase, particles, max_life, acceleration, hist>>
    /\ UNCHANGED <<others, drawn, result>>

Builder_lifetime_resets_count(time) ==
    /\ phase = "building"
    /\ max_life' = time
    /\ max_particles' = 0
    /\ configured' = [configured EXCEPT !.lifetime = <<time>>]
    /\ call' = [name |-> "lifetime", arg |-> <<time>>]
    /\ UNCHANGED <<phase, particles, acceleration, hist>>
    /\ UNCHANGED <<others, drawn, result>>

Builder_lifetime(time) ==
    /\ phase = "building"
    /\ max_life' = time
    /\ configured' = [configured EXCEPT !.lifetime = <<time>>]
    /\ call' = [name |-> "lifetime", arg |-> <<time>>]
    /\ UNCHANGED <<phase, particles, max_particles, acceleration, hist>>
    /\ UNCHANGED <<others, drawn, result>>

Builder_acceleration(accel) ==
    /\ phase = "building"
    /\ acceleration' = accel
    /\ configured' = [configured EXCEPT !.acceleration = <<accel>>]
    /\ call' = [name |-> "acceleration", arg |-> <<accel>>]
    /\ UNCHANGED <<phase, particles, max_particles, max_life, hist>>
    /\ UNCHANGED <<others, drawn, result>>

Builder_build ==
    /\ phase = "building"
    /\ phase' = "running"
    /\ call' = [name |-> "build", arg |-> <<>>]
    /\ UNCHANGED <<particles, max_particles, max_life, acceleration, configured, hist>>
    /\ UNCHANGED <<others, drawn, result>>

\* ------------------------------------------------------- the built system
System_emit ==
    /\ phase = "running"
    /\ Len(hist) < MaxOps
    /\ particles' = emit(particles, max_particles, Len(hist) + 1)
    /\ hist' = Append(hist, [name |-> "emit", dt |-> 0])
    /\ call' = [name |-> "emit", arg |-> <<>>]
    /\ drawn' = <<>>
    /\ result' = <<>>
    /\ UNCHANGED <<phase, max_particles, max_life, acceleration, configured, others>>

System_update(dt) ==
    /\ phase = "running"
    /\ Len(hist) < MaxOps
    /\ particles' = update(particles, acceleration, max_life, dt)
    /\ hist' = Append(hist, [name |-> "update", dt |-> dt])
    /\ call' = [name |-> "update", arg |-> <<dt>>]
    /\ drawn' = <<>>
    /\ result' = <<>>
    /\ UNCHANGED <<phase, max_particles, max_life, acceleration, configured, others>>

Next ==
    \/ \E c \in Counts : Builder_count(c)
    \/ \E t \in Lifetimes : Builder_lifetime(t)
    \/ \E a \in Accels : Builder_acceleration(a)
    \/ Builder_build
    \/ System_emit
    \/ \E dt \in Dts : System_update(dt)

Spec == Init /\ [][Next]_vars

\* ----------------------------------------------------------- Transition
\* A breakpoint is <<time, value>>.  The struct has no constructor: a
\* Transition starts from any breakpoint sequence its documentation allows,
\* sorted by time with no time twice.
BreakTimes == 0..MaxBreakTime
BreakVals == 0..MaxBreakVal
Breakpoint == BreakTimes \X BreakVals

SortedByTime(bps) == \A i, j \in 1..Len(bps) : i < j => bps[i][1] < bps[j][1]

Transitions ==
    {bps \in UNION {[1..n -> Breakpoint] : n \in 0..2} : SortedByTime(bps)}

\* fn add(&mut self, t: f64, val: T) {}
add(bps, t, val) == bps

InitTransition ==
    /\ phase = "transition"
    /\ breakpoints \in Transitions
    /\ call = [name |-> "new", arg |-> <<>>]
    /\ result = <<>>
    /\ particles = <<>>
    /\ max_particles = 0
    /\ max_life = Inf
    /\ acceleration = <<0, 0>>
    /\ configured = [count |-> <<>>, lifetime |-> <<>>, acceleration |-> <<>>]
    /\ hist = <<>>
    /\ start_param = [kind |-> "None"]
    /\ drawn = <<>>

Transition_add(t, val) ==
    /\ phase = "transition"
    /\ breakpoints' = add(breakpoints, t, val)
    /\ call' = [name |-> "add", arg |-> <<t, val>>]
    /\ result' = <<>>
    /\ UNCHANGED <<phase, particles, max_particles, max_life, acceleration,
                   configured, hist, start_param, drawn>>

NextTransition == \E t \in BreakTimes, val \in BreakVals : Transition_add(t, val)

SpecTransition == InitTransition /\ [][NextTransition]_vars

\* ----------------------------------------------------------- StartParam
\* Values are counted in quarters: 1.0 is 4.
Fixed(x) == [kind |-> "Fixed", x |-> x]
UniformRange(low, high) == [kind |-> "UniformRange", low |-> low, high |-> high]

Params == 0..MaxParam
StartParams ==
    {Fixed(x) : x \in Params} \cup {UniformRange(l, h) : l, h \in Params}

\* what the random source can give: rand::Open01 is (0,1), Rng::gen is [0,1)
Open01 == {1, 2, 3}
HalfOpen01 == {0, 1, 2, 3}

\* Sample<f64>::sample: the Open01 value, whatever the descriptor
sample(sp, r) == r

\* StartParam<f64>::get_value: the UniformRange arm binds low and high and
\* uses neither; it asks the random source for a value (rand::random), which
\* for this type is the sample above.
get_value_f64(sp, r) ==
    CASE sp.kind = "Fixed" -> sp.x
      [] sp.kind = "UniformRange" -> sample(sp, r)

\* StartParam<f32>::get_value: the UniformRange arm is rng.gen()
get_value_f32(sp, r) ==
    CASE sp.kind = "Fixed" -> sp.x
      [] sp.kind = "UniformRange" -> r

InitStartParam ==
    /\ phase = "start_param"
    /\ start_param \in StartParams
    /\ call = [name |-> "new", arg |-> <<>>]
    /\ result = <<>>
    /\ particles = <<>>
    /\ max_particles = 0
    /\ max_life = Inf
    /\ acceleration = <<0, 0>>
    /\ configured = [count |-> <<>>, lifetime |-> <<>>, acceleration |-> <<>>]
    /\ hist = <<>>
    /\ breakpoints = <<>>
    /\ drawn = <<>>

\* get_value(self) takes the descriptor by value: it is gone after the call
StartParam_get_value_f64(r) ==
    /\ phase = "start_param"
    /\ start_param.kind # "None"
    /\ result' = <<get_value_f64(start_param, r)>>
    /\ start_param' = [kind |-> "None"]
    /\ call' = [name |-> "get_value", arg |-> <<start_param>>]
    /\ UNCHANGED <<phase, particles, max_particles, max_life, acceleration,
                   configured, hist, breakpoints, drawn>>

StartParam_get_value_f32(r) ==
    /\ phase = "start_param"
    /\ start_param.kind # "None"
    /\ result' = <<get_value_f32(start_param, r)>>
    /\ start_param' = [kind |-> "None"]
    /\ call' = [name |-> "get_value", arg |-> <<start_param>>]
    /\ UNCHANGED <<phase, particles, max_particles, max_life, acceleration,
                   configured, hist, breakpoints, drawn>>

NextStartParam ==
    \/ \E r \in Open01 : StartParam_get_value_f64(r)
    \/ \E r \in HalfOpen01 : StartParam_get_value_f32(r)

SpecStartParam == InitStartParam /\ [][NextStartParam]_vars

\* -------------------------------------------------- Drawable::draw_ex
Rect(x, y, w, h) == [x |-> x, y |-> y, w |-> w, h |-> h]

\* dst: Option<Rect>, <<>> for None
Dsts == {<<>>, <<Rect(1, -2, 3, 4)>>}

\* `p.pos.x as i32`: the position, counted in fortieths, cut to its integer
\* part (towards zero)
as_i32_floor(x) == x \div 40

as_i32(x) == IF x >= 0 THEN x \div 40 ELSE -((-x) \div 40)

calc_particle_size(idx) == 5

\* The rectangles handed to graphics::rectangle and the value returned.
\* failing is the index of the particle whose rectangle the context refuses
\* (the ? returns the error at once), 0 when it refuses none.
draw_ex(ps, dst, failing) ==
    LET dst_rect == IF dst = <<>> THEN Rect(0, 0, 0, 0) ELSE dst[1]
        rect(i) == Rect(dst_rect.x + as_i32(ps[i].pos[1]),
                        dst_rect.y + as_i32(ps[i].pos[2]),
                        calc_particle_size(i), calc_particle_size(i))
        n == IF failing = 0 THEN Len(ps) ELSE failing - 1
    IN  [drawn |-> [i \in 1..n |-> rect(i)],
         result |-> IF failing = 0 THEN "Ok" ELSE "Err"]

System_draw(dst, failing) ==
    /\ phase = "running"
    /\ failing \in 0..Len(particles)
    /\ drawn' = draw_ex(particles, dst, failing).drawn
    /\ result' = <<draw_ex(particles, dst, failing).result>>
    /\ call' = [name |-> "draw_ex", arg |-> dst]
    /\ UNCHANGED <<phase, particles, max_particles, max_life, acceleration,
                   configured, hist, others>>

\* The calls of Next and draw_ex.  What draw_ex does depends on the positions
\* only, so the frames drawn here are stepped by half a second, forwards or
\* backwards: that reaches positions of either sign, whole and not.
DrawDts == {-1, 1}

NextDraw ==
    \/ \E c \in Counts : Builder_count(c)
    \/ \E t \in Lifetimes : Builder_lifetime(t)
    \/ \E a \in Accels : Builder_acceleration(a)
    \/ Builder_build
    \/ System_emit
    \/ \E dt \in DrawDts : System_update(dt)
    \/ \E dst \in Dsts, failing \in 0..(MaxCount + 1) : System_draw(dst, failing)

SpecDraw == Init /\ [][NextDraw]_vars

\* ------------------------------------------------- the host's frame loop
\* The host calls update once per frame, for ever (spec.md, sections 5 and
\* 6), each time with a dt of at least one step.  These calls are not
\* recorded in hist, which here holds the emits alone and stays bounded; the
\* ages stay bounded because max_life is finite.
LiveDts == 1..MaxDt

System_tick(dt) ==
    /\ phase = "running"
    /\ max_life.fin
    /\ particles' = update(particles, acceleration, max_life, dt)
    /\ call' = [name |-> "update", arg |-> <<dt>>]
    /\ drawn' = <<>>
    /\ result' = <<>>
    /\ UNCHANGED <<phase, max_particles, max_life, acceleration, configured,
                   hist, others>>

NextLive ==
    \/ \E c \in Counts : Builder_count(c)
    \/ \E t \in Lifetimes : Builder_lifetime(t)
    \/ \E a \in Accels : Builder_acceleration(a)
    \/ Builder_build
    \/ System_emit
    \/ \E dt \in LiveDts : System_tick(dt)

SpecLive ==
    /\ Init
    /\ [][NextLive]_vars
    /\ WF_vars(\E dt \in LiveDts : System_tick(dt))

\* ------------------------------------------------------------ properties
Last(s) == s[Len(s)]

\* the sum of the dt of the calls hist[from+1 .. Len(hist)]
RECURSIVE Elapsed(_, _)
Elapsed(h, from) ==
    IF Len(h) <= from THEN 0
    ELSE h[Len(h)].dt + Elapsed(SubSeq(h, 1, Len(h) - 1), from)

\* the steps of the next-state relation that are a call of emit / of update
EmitStep == hist' # hist /\ Last(hist').name = "emit"
UpdateStep == hist' # hist /\ Last(hist').name = "update"
AfterEmit == hist # <<>> /\ Last(hist).name = "emit"
AfterUpdate == hist # <<>> /\ Last(hist).name = "update"

Born(ps) == {ps[i].born : i \in 1..Len(ps)}
IndexOf(ps, b) == CHOOSE i \in 1..Len(ps) : ps[i].born = b

\* C1: in every reachable state the pool holds at most max_particles
\* particles.
C1_PoolWithinMaxParticles == Len(particles) <= max_particles

\* C2: immediately after every emit, whatever emits and updates came before,
\* the pool holds at most max_particles + 1 particles.
C2_AfterEmitAtMostMaxPlusOne == AfterEmit => Len(particles) <= max_particles + 1

\* an emit, after an earlier update, that filled the pool to max_particles + 1
C2_Witness ==
    /\ AfterEmit
    /\ Len(particles) = max_particles + 1
    /\ max_particles >= 1
    /\ \E i \in 1..Len(hist) : hist[i].name = "update" /\ hist[i].dt > 0

C4_UpdateEvictsExactlyExpired ==
    [][UpdateStep =>
        LET dt == Last(hist').dt IN
        /\ \A i \in 1..Len(particles) :
              F64Lt(particles[i].age + dt, max_life)
                 <=> particles[i].born \in Born(particles')
        /\ \A j \in 1..Len(particles') :
              /\ F64Lt(particles'[j].age, max_life)
              /\ particles'[j].born \in Born(particles)
        /\ \A j, k \in 1..Len(particles') :
              j < k => IndexOf(particles, particles'[j].born)
                          < IndexOf(particles, particles'[k].born)]_vars

\* an update after which a particle whose age reached max_life exactly is
\* gone while a younger one is kept
C4_Witness ==
    /\ AfterUpdate
    /\ max_life.fin
    /\ Len(particles) >= 1
    /\ \E b \in 1..Len(hist) :
          /\ hist[b].name = "emit"
          /\ b \notin Born(particles)
          /\ Elapsed(hist, b) = max_life.v
          /\ Elapsed(hist, b) - Last(hist).dt < max_life.v

\* C5: a particle in the pool has the age T and the velocity
\* initial velocity + acceleration * T, T the sum of the dt of the updates
\* made since it was emitted.
C5_AgeAndVelocityOfElapsed ==
    \A i \in 1..Len(particles) :
        LET T == Elapsed(hist, particles[i].born) IN
        /\ particles[i].age = T
        /\ particles[i].vel = VAdd(EmitVel, VScale(acceleration, T))

\* a particle that went through two updates of different dt under a
\* non-zero acceleration
C5_Witness ==
    /\ acceleration = <<3, 1>>
    /\ \E i \in 1..Len(particles) :
          LET b == particles[i].born IN
          /\ Len(hist) >= b + 2
          /\ hist[b + 1].name = "update" /\ hist[b + 1].dt = 1
          /\ hist[b + 2].name = "update" /\ hist[b + 2].dt = 2

\* C6: an update with dt < 0 is rejected: it changes no particle's age,
\* velocity or position and evicts none.
C6_NegativeDtChangesNothing ==
    [][(UpdateStep /\ Last(hist').dt < 0) => particles' = particles]_vars

\* C7: every particle in the pool has an age >= 0, and the age of a particle
\* that stays in the pool over an update does not decrease.
C7_AgeNonNegativeAndMonotone ==
    [][/\ \A j \in 1..Len(particles') : particles'[j].age >= 0
       /\ UpdateStep =>
            \A j \in 1..Len(particles') :
                \A i \in 1..Len(particles) :
                    particles[i].born = particles'[j].born
                        => particles'[j].age >= particles[i].age]_vars

Scenario ==
    /\ max_particles = 1
    /\ max_life = Fin(4)
    /\ acceleration = <<0, -98>>

EmitCall == [name |-> "emit", dt |-> 0]
UpdateCall(dt) == [name |-> "update", dt |-> dt]

\* C8: count = 1, lifetime = 2.0, acceleration = (0, -9.8): after two emits
\* and update(1.0) every admitted particle (both of them) is in the pool with
\* age 1.0, and after the following update(1.5) the pool is empty.
C8_ScenarioEvictedAfterSecondUpdate ==
    Scenario =>
        /\ hist = <<EmitCall, EmitCall>> => Len(particles) = 2
        /\ hist = <<EmitCall, EmitCall, UpdateCall(2)>> =>
              /\ Born(particles) = {1, 2}
              /\ \A i \in 1..Len(particles) : particles[i].age = 2
        /\ hist = <<EmitCall, EmitCall, UpdateCall(2), UpdateCall(3)>> =>
              particles = <<>>

\* the scenario's last state
C8_Witness ==
    /\ Scenario
    /\ hist = <<EmitCall, EmitCall, UpdateCall(2), UpdateCall(3)>>
    /\ particles = <<>>

\* C9: in a system on which lifetime() was never called max_life is
\* unbounded, and no update evicts a particle from it: the pool after an
\* update holds the particles it held before.
C9_DefaultLifeNeverEvicts ==
    [][Len(configured'.lifetime) = 0 =>
        /\ max_life' = Inf
        /\ UpdateStep =>
              /\ Len(particles') = Len(particles)
              /\ \A i \in 1..Len(particles) :
                    particles'[i].born = particles[i].born]_vars

\* a system with the default lifetime whose two particles have been through
\* updates of dt > 0
C9_Witness ==
    /\ Len(configured.lifetime) = 0
    /\ AfterUpdate
    /\ Len(particles) = 2
    /\ \A i \in 1..Len(particles) : particles[i].age >= MaxDt

Configured(opt, default) == IF Len(opt) = 0 THEN default ELSE opt[1]

\* C10: build() returns a system with an empty pool whose max_particles,
\* max_life and acceleration are the arguments of the last count, lifetime
\* and acceleration call (0, unbounded and (0,0) when there was none), and a
\* call of an option changes the field of that option only.
C10_BuilderSetsOwnFieldOnly ==
    [][/\ call'.name = "count" =>
            /\ max_particles' = call'.arg[1]
            /\ UNCHANGED <<particles, max_life, acceleration>>
       /\ call'.name = "lifetime" =>
            /\ max_life' = call'.arg[1]
            /\ UNCHANGED <<particles, max_particles, acceleration>>
       /\ call'.name = "acceleration" =>
            /\ acceleration' = call'.arg[1]
            /\ UNCHANGED <<particles, max_particles, max_life>>
       /\ call'.name = "build" =>
            /\ particles' = <<>>
            /\ max_particles' = Configured(configured.count, 0)
            /\ max_life' = Configured(configured.lifetime, Inf)
            /\ acceleration' = Configured(configured.acceleration, <<0, 0>>)]_vars

\* a system built after count, lifetime and acceleration were each called,
\* count last with an argument other than the default
C10_Witness ==
    /\ call.name = "build"
    /\ Len(configured.lifetime) = 1
    /\ Len(configured.acceleration) = 1
    /\ Len(configured.count) = 1
    /\ max_particles = MaxCount
    /\ max_life = Fin(4)
    /\ acceleration = <<3, 1>>

\* C11: after add(t, value) with 0 <= t <= 1 the breakpoints hold an entry
\* of time t and the given value, are sorted by ascending time and hold no
\* time twice (an entry that had the time t is replaced).
C11_AddInsertsSorted ==
    [][call'.name = "add" =>
        /\ \E i \in 1..Len(breakpoints') : breakpoints'[i] = call'.arg
        /\ SortedByTime(breakpoints')]_vars

\* C12: Fixed(v) resolves to v; UniformRange(low, high) resolves, whatever
\* the random source gives, to a value v with low <= v < high.  (Stated for
\* low < high: no value is in the range when low = high.)
C12_ResolvedWithinRange ==
    call.name = "get_value" =>
        LET sp == call.arg[1]
            v == result[1]
        IN  /\ sp.kind = "Fixed" => v = sp.x
            /\ (sp.kind = "UniformRange" /\ sp.low < sp.high) =>
                  (sp.low <= v /\ v < sp.high)

\* the integer q is x cut to its integer part, x counted in fortieths
IntegerPartOf(q, x) ==
    /\ x >= 0 => (q * 40 <= x /\ x < q * 40 + 40)
    /\ x <= 0 => (q * 40 >= x /\ x > q * 40 - 40)

\* C13: draw_ex leaves the pool and max_particles, max_life and
\* acceleration as they were, whether it returns Ok or Err, and when it
\* returns Ok it has drawn one rectangle per particle of the pool, in order,
\* at the particle's position offset by dst and of the derived size.
C13_DrawReadsOnly ==
    [][call'.name = "draw_ex" =>
        /\ UNCHANGED <<particles, max_particles, max_life, acceleration>>
        /\ result' = <<"Ok">> =>
              /\ Len(drawn') = Len(particles)
              /\ \A i \in 1..Len(particles) :
                    LET d == IF call'.arg = <<>> THEN Rect(0, 0, 0, 0) ELSE call'.arg[1]
                    IN  /\ IntegerPartOf(drawn'[i].x - d.x, particles[i].pos[1])
                        /\ IntegerPartOf(drawn'[i].y - d.y, particles[i].pos[2])
                        /\ drawn'[i].w = 5
                        /\ drawn'[i].h = 5]_vars

\* a successful draw, with a dst, of two particles at negative positions
\* that are no whole numbers
C13_Witness ==
    /\ call.name = "draw_ex"
    /\ call.arg # <<>>
    /\ result = <<"Ok">>
    /\ Len(drawn) = 2
    /\ \A i \in 1..Len(particles) :
          particles[i].pos[1] < 0 /\ particles[i].pos[1] % 40 # 0

\* C14: an update of dt gives every particle it keeps the velocity
\* vel + acceleration * dt, the position pos + (that new velocity) * dt and
\* the age age + dt, computed from the particle's own state alone.
C14_VelocityBeforePosition ==
    [][UpdateStep =>
        LET dt == Last(hist').dt IN
        \A j \in 1..Len(particles') :
            \E i \in 1..Len(particles) :
                LET p == particles[i]
                    q == particles'[j]
                    new_vel == VAdd(p.vel, VScale(acceleration, dt))
                IN  /\ q.born = p.born
                    /\ q.vel = new_vel
                    /\ q.pos = VAdd(p.pos, VScale(new_vel, dt))
                    /\ q.age = p.age + dt]_vars

\* two particles of different ages after an update of dt = 2 under a
\* non-zero acceleration
C14_Witness ==
    /\ AfterUpdate
    /\ Last(hist).dt = 2
    /\ acceleration = <<3, 1>>
    /\ Len(particles) = 2
    /\ particles[1].age > particles[2].age

\* C15: an update adds no particle to the pool (the particles after it were
\* in the pool before it, in the same order); a particle that is not in the
\* pool is not in it after any later call but the emit that creates it; an
\* emit leaves every particle of the pool in place and unchanged.
C15_GrowsByEmitShrinksByUpdate ==
    [][/\ UpdateStep =>
            /\ Len(particles') <= Len(particles)
            /\ Born(particles') \subseteq Born(particles)
       /\ \A b \in 1..Len(hist) : b \notin Born(particles) => b \notin Born(particles')
       /\ EmitStep =>
            /\ Len(particles') >= Len(particles)
            /\ SubSeq(particles', 1, Len(particles)) = particles]_vars

\* an emit that fills the pool after an update evicted the particle of the
\* first call (an emit into the empty pool, which is always admitted)
C15_Witness ==
    /\ AfterEmit
    /\ Len(particles) = max_particles + 1
    /\ Len(hist) \in Born(particles)
    /\ hist[1].name = "emit"
    /\ 1 \notin Born(particles)

\* C16: with a finite max_life and update called again and again with
\* dt >= one step, every particle in the pool is eventually out of it, and
\* once the emits have stopped the pool becomes empty and stays empty.
C16_EveryParticleEventuallyEvicted ==
    /\ \A b \in 1..MaxOps :
          (max_life.fin /\ b \in Born(particles)) ~> (b \notin Born(particles))
    /\ <>[](max_life.fin => particles = <<>>)

\* the pool of a system of lifetime 2.0 is empty again after an update, two
\* emits having been made into it
C16_Witness ==
    /\ max_life = Fin(4)
    /\ max_particles >= 1
    /\ Len(hist) = 2
    /\ call.name = "update"
    /\ particles = <<>>

\* every update of the history had a dt >= 0
NonNegative(h) == \A i \in 1..Len(h) : h[i].dt >= 0

BornSeq(ps) == [i \in 1..Len(ps) |-> ps[i].born]

\* C17: when every update had dt >= 0 the pool is in the order of emission,
\* an earlier particle at least as old as a later one, and the particles an
\* update evicts are a prefix of the pool: what it keeps is a suffix.
C17_PoolOrderedByAge ==
    [][NonNegative(hist') =>
        /\ \A i, j \in 1..Len(particles') :
              i < j => /\ particles'[i].born < particles'[j].born
                       /\ particles'[i].age >= particles'[j].age
        /\ UpdateStep =>
              \E k \in 0..Len(particles) :
                  BornSeq(particles') = SubSeq(BornSeq(particles), k + 1, Len(particles))]_vars

\* emit, update, emit, update with dt > 0: the older particle was evicted by
\* the last update and the younger one kept
C17_Witness ==
    /\ AfterUpdate
    /\ NonNegative(hist)
    /\ Len(hist) = 4
    /\ hist[1].name = "emit" /\ hist[2].name = "update" /\ hist[3].name = "emit"
    /\ BornSeq(particles) = <<3>>
    /\ particles[1].age > 0

\* the pool after the calls h made on the built system, from the empty pool
RECURSIVE Replay(_)
Replay(h) ==
    IF h = <<>> THEN <<>>
    ELSE LET before == Replay(SubSeq(h, 1, Len(h) - 1))
             c == h[Len(h)]
         IN  IF c.name = "emit"
             THEN emit(before, max_particles, Len(h))
             ELSE update(before, acceleration, max_life, c.dt)

WithoutPos(ps) == [i \in 1..Len(ps) |-> [born |-> ps[i].born, age |-> ps[i].age, vel |-> ps[i].vel]]

\* the last two calls were update(dt1) and update(dt2) with dt1, dt2 >= 0
SplitTick ==
    /\ Len(hist) >= 2
    /\ hist[Len(hist) - 1].name = "update" /\ hist[Len(hist) - 1].dt >= 0
    /\ hist[Len(hist)].name = "update" /\ hist[Len(hist)].dt >= 0

\* the pool a single update(dt1 + dt2) gives in place of the last two calls
Merged ==
    update(Replay(SubSeq(hist, 1, Len(hist) - 2)), acceleration, max_life,
           hist[Len(hist) - 1].dt + hist[Len(hist)].dt)

\* C18: update(dt1) then update(dt2), dt1, dt2 >= 0, leaves the particles,
\* ages and velocities that update(dt1 + dt2) leaves, and the same positions
\* too when acceleration is zero.
C18_SplitTickSameAsMerged ==
    SplitTick =>
        /\ WithoutPos(particles) = WithoutPos(Merged)
        /\ acceleration = <<0, 0>> => particles = Merged

\* two updates of dt > 0 under a non-zero acceleration that evicted one
\* particle and kept another, whose position is not the one the single
\* update gives
C18_Witness ==
    /\ SplitTick
    /\ hist[Len(hist) - 1].dt > 0 /\ hist[Len(hist)].dt > 0
    /\ acceleration # <<0, 0>>
    /\ Len(particles) = 1
    /\ hist[1].name = "emit" /\ hist[2].name = "emit"
    /\ particles # Merged

\* C19: with max_life > 0 an update(0) changes nothing; with max_life <= 0
\* the pool is empty after every update, update(0) included.
C19_ZeroTickAndZeroLife ==
    [][UpdateStep =>
        /\ (F64Lt(0, max_life) /\ Last(hist').dt = 0) => particles' = particles
        /\ ~F64Lt(0, max_life) => particles' = <<>>]_vars

====
